---- MODULE Spec2Model ----
(***************************************************************************)
(* A model of the BOM manager: inventorapi.py (Document, Part, BOMView,    *)
(* BOMRow) and managerbom.py (ManagerBOM: the walk _collect_data, the four  *)
(* _summarize_* aggregators, the _transfer* sinks and issue_bom).           *)
(*                                                                         *)
(* Conventions of the model                                                *)
(*  - a Python str is a sequence of one-character strings; the Cyrillic     *)
(*    literals of the source are written in Latin letters: the meter unit   *)
(*    is "m", the strip marker is "Polosa", the unified prefix is "MD1000"; *)
(*  - None is the one-element sequence NoneValue;                           *)
(*  - a Python dict is a function whose domain is the set of its keys;      *)
(*  - a Python float is an exact decimal with four decimal places:          *)
(*    the integer v stands for the float v / 10000, so that every division  *)
(*    of the source is exact on the model's values and only round() and     *)
(*    the formatting lose digits.                                           *)
(***************************************************************************)
EXTENDS Integers, Sequences, FiniteSets, TLC

(***************************************************************************)
(* Bounds of the model.                                                    *)
(***************************************************************************)
\* rows of a generated BOM tree that is walked
MaxRows == 3
\* rows of a generated BOM tree that is issued
MaxIssuedRows == 2
\* item quantities of generated rows are 1..MaxQty
MaxQty == 2
\* calls of issue_bom, or of _transfer_material, on one ManagerBOM
MaxCalls == 2
\* Records of a list that is summarized
MaxRecords == 3
\* rows of a generated material sheet, and entries transferred to it
MaxSheetRows == 2
\* property names asked of one get_properties
MaxProperties == 3

(***************************************************************************)
(* Python values.                                                          *)
(***************************************************************************)
NoneValue == <<"<None>">>

\* the characters of the model's strings, in code point order
Chars ==
    <<" ", "-", ".", "0", "1", "2", "3", "4", "5", "6", "7", "8", "9",
      "A", "B", "C", "D", "M", "P", "S", "V", "X", "Y", "Z", "a", "b", "c",
      "e", "h", "l", "m", "o", "q", "r", "s", "t", "x", "y", "z">>

Ord(c) == CHOOSE i \in 1..Len(Chars) : Chars[i] = c

Digits == <<"0", "1", "2", "3", "4", "5", "6", "7", "8", "9">>

IsDigit(c) == \E i \in 1..10 : Digits[i] = c

DigitValue(c) == (CHOOSE i \in 1..10 : Digits[i] = c) - 1

\* str.startswith
StartsWith(s, prefix) ==
    /\ Len(prefix) <= Len(s)
    /\ SubSeq(s, 1, Len(prefix)) = prefix

\* the order of str: s < t
RECURSIVE StrLess(_, _)
StrLess(s, t) ==
    IF t = <<>> THEN FALSE
    ELSE IF s = <<>> THEN TRUE
    ELSE IF Head(s) = Head(t) THEN StrLess(Tail(s), Tail(t))
    ELSE Ord(Head(s)) < Ord(Head(t))

\* bool(value) of a str or None
Truthy(v) == v # NoneValue /\ v # <<>>

Min(S) == CHOOSE x \in S : \A y \in S : x <= y

Max(S) == CHOOSE x \in S : \A y \in S : x >= y

(***************************************************************************)
(* inventorapi.Document                                                    *)
(***************************************************************************)
\* Document._PROPERTY_SETS: a document's PropertySets is a sequence of four
\* dicts, in this order
_PROPERTY_SETS ==
    <<"Design Tracking Properties", "Inventor Summary Information",
      "Inventor Document Summary Information",
      "Inventor User Defined Properties">>

\* the inner loop of get_properties: the first set that holds prop gives the
\* value; when every lookup raises, value keeps what it had
LookupProperty(doc, prop, value) ==
    LET hits == {k \in 1..Len(_PROPERTY_SETS) : prop \in DOMAIN doc.PropertySets[k]}
    IN  IF hits = {} THEN value ELSE doc.PropertySets[Min(hits)][prop]

RECURSIVE GetPropertiesFrom(_, _, _, _)
GetPropertiesFrom(doc, properties, value, data) ==
    IF properties = <<>> THEN data
    ELSE LET prop == Head(properties)
             v == LookupProperty(doc, prop, value)
         IN  GetPropertiesFrom(doc, Tail(properties), v, (prop :> v) @@ data)

\* Document.get_properties: value = None once, before the loop
get_properties(doc, properties) ==
    GetPropertiesFrom(doc, properties, NoneValue, <<>>)

is_modeling(doc) == doc.SubType = "modeling"

is_sheet_metal(doc) == doc.SubType = "sheet metal"

is_assembly(doc) == doc.SubType = "assembly"

is_part(doc) == is_modeling(doc) \/ is_sheet_metal(doc)

\* Part.get_size: the range box is in cm, the size in mm
get_size(doc) ==
    [k \in {"Size X", "Size Y", "Size Z"} |->
        LET axis == CASE k = "Size X" -> "X" [] k = "Size Y" -> "Y" [] OTHER -> "Z"
        IN  (doc.RangeBox.MaxPoint[axis] - doc.RangeBox.MinPoint[axis]) * 10]

(***************************************************************************)
(* The documents the model is run on.                                      *)
(***************************************************************************)
\* the strip marker of line 87 of managerbom.py
StripMarker == <<"P", "o", "l", "o", "s", "a">>

\* the prefix of line 174 of managerbom.py
UnifiedPrefix == <<"M", "D", "1", "0", "0", "0">>

NoProperties == <<>>

NoBox == [MinPoint |-> [X |-> 0, Y |-> 0, Z |-> 0], MaxPoint |-> [X |-> 0, Y |-> 0, Z |-> 0]]

Each == [settable |-> FALSE, UnitQuantity |-> <<>>]

\* a purchased part counted in pieces: part number "P-1", nothing else filled in
ItemP1 ==
    [SubType |-> "modeling",
     PropertySets |->
        <<("Part Number" :> <<"P", "-", "1">>) @@ ("Description" :> <<>>)
          @@ ("Project" :> <<>>) @@ ("Vendor" :> <<>>) @@ ("Stock Number" :> <<>>),
          NoProperties, NoProperties, NoProperties>>,
     BOMQuantity |-> Each, RangeBox |-> NoBox]

\* a purchased cable measured in meters, with a vendor
ItemCable ==
    [SubType |-> "modeling",
     PropertySets |->
        <<("Part Number" :> <<"C", "-", "1">>) @@ ("Description" :> <<"C", "a", "b", "l", "e">>)
          @@ ("Project" :> <<>>) @@ ("Vendor" :> <<"V">>) @@ ("Stock Number" :> <<>>),
          NoProperties, NoProperties, NoProperties>>,
     BOMQuantity |-> [settable |-> TRUE, UnitQuantity |-> <<"2", ".", "5", " ", "m">>],
     RangeBox |-> NoBox]

\* the same cable counted in pieces
ItemCableEach == [ItemCable EXCEPT !.BOMQuantity = Each]

\* a purchased rod whose unit quantity is a number without a unit
ItemRod ==
    [SubType |-> "modeling",
     PropertySets |->
        <<("Part Number" :> <<"P", "-", "2">>) @@ ("Description" :> <<>>)
          @@ ("Project" :> <<>>) @@ ("Vendor" :> <<>>) @@ ("Stock Number" :> <<>>),
          NoProperties, NoProperties, NoProperties>>,
     BOMQuantity |-> [settable |-> TRUE, UnitQuantity |-> <<"2", ".", "5">>],
     RangeBox |-> NoBox]

\* a sheet-metal part of material "Sheet-A": 100 g, 500 cm2
ItemSheetA ==
    [SubType |-> "sheet metal",
     PropertySets |->
        <<("Part Number" :> <<"S", "-", "1">>) @@ ("Description" :> <<>>)
          @@ ("Material" :> <<"S", "h", "e", "e", "t", "-", "A">>) @@ ("Mass" :> 100)
          @@ ("Flat Pattern Width" :> 20) @@ ("Flat Pattern Length" :> 25)
          @@ ("Flat Pattern Area" :> 500),
          NoProperties, NoProperties, NoProperties>>,
     BOMQuantity |-> Each, RangeBox |-> NoBox]

\* a sheet-metal part of material "Sheet-B": 2500 g, 1234 cm2
ItemSheetB ==
    [SubType |-> "sheet metal",
     PropertySets |->
        <<("Part Number" :> <<"S", "-", "2">>) @@ ("Description" :> <<>>)
          @@ ("Material" :> <<"S", "h", "e", "e", "t", "-", "B">>) @@ ("Mass" :> 2500)
          @@ ("Flat Pattern Width" :> 30) @@ ("Flat Pattern Length" :> 40)
          @@ ("Flat Pattern Area" :> 1234),
          NoProperties, NoProperties, NoProperties>>,
     BOMQuantity |-> Each, RangeBox |-> NoBox]

\* a strip: sheet metal whose material starts with the strip marker, 50 x 5 cm
ItemStrip ==
    [SubType |-> "sheet metal",
     PropertySets |->
        <<("Part Number" :> <<"S", "-", "3">>) @@ ("Description" :> <<>>)
          @@ ("Material" :> StripMarker \o <<" ", "4">>) @@ ("Mass" :> 300)
          @@ ("Flat Pattern Width" :> 5) @@ ("Flat Pattern Length" :> 50)
          @@ ("Flat Pattern Area" :> 250),
          NoProperties, NoProperties, NoProperties>>,
     BOMQuantity |-> Each, RangeBox |-> NoBox]

\* a modeling part of material "Bar": 2500 g, 2 x 2 x 100 cm
ItemBar ==
    [SubType |-> "modeling",
     PropertySets |->
        <<("Part Number" :> <<"B", "-", "1">>) @@ ("Description" :> <<>>)
          @@ ("Material" :> <<"B", "a", "r">>) @@ ("Mass" :> 2500),
          NoProperties, NoProperties, NoProperties>>,
     BOMQuantity |-> Each,
     RangeBox |-> [MinPoint |-> [X |-> 0, Y |-> 0, Z |-> 0],
                   MaxPoint |-> [X |-> 2, Y |-> 2, Z |-> 100]]]

\* a unified modeling part of material "20x20 tube" that lies along X: its
\* size along Z is the 20 of the material name
ItemTube ==
    [SubType |-> "modeling",
     PropertySets |->
        <<("Part Number" :> UnifiedPrefix \o <<"-", "1">>) @@ ("Description" :> <<>>)
          @@ ("Material" :> <<"2", "0", "x", "2", "0", " ", "t", "e">>) @@ ("Mass" :> 1500),
          NoProperties, NoProperties, NoProperties>>,
     BOMQuantity |-> Each,
     RangeBox |-> [MinPoint |-> [X |-> 0, Y |-> 0, Z |-> 0],
                   MaxPoint |-> [X |-> 50, Y |-> 2, Z |-> 2]]]

\* a modeling part of material "20x30" that lies along X: its size along Z is
\* the 30 of the material name, the digits after the "x"
ItemPipe ==
    [SubType |-> "modeling",
     PropertySets |->
        <<("Part Number" :> <<"B", "-", "2">>) @@ ("Description" :> <<>>)
          @@ ("Material" :> <<"2", "0", "x", "3", "0">>) @@ ("Mass" :> 1000),
          NoProperties, NoProperties, NoProperties>>,
     BOMQuantity |-> Each,
     RangeBox |-> [MinPoint |-> [X |-> 0, Y |-> 0, Z |-> 0],
                   MaxPoint |-> [X |-> 100, Y |-> 2, Z |-> 3]]]

\* a modeling part of material "200x5" whose size along Z is 20: a part of
\* the digits of the material name, and none of its numbers
ItemRail ==
    [SubType |-> "modeling",
     PropertySets |->
        <<("Part Number" :> <<"B", "-", "3">>) @@ ("Description" :> <<>>)
          @@ ("Material" :> <<"2", "0", "0", "x", "5">>) @@ ("Mass" :> 500),
          NoProperties, NoProperties, NoProperties>>,
     BOMQuantity |-> Each,
     RangeBox |-> [MinPoint |-> [X |-> 0, Y |-> 0, Z |-> 0],
                   MaxPoint |-> [X |-> 20, Y |-> 1, Z |-> 2]]]

\* an assembly
ItemAsm ==
    [SubType |-> "assembly",
     PropertySets |->
        <<("Part Number" :> <<"A", "-", "1">>) @@ ("Description" :> <<>>),
          NoProperties, NoProperties, NoProperties>>,
     BOMQuantity |-> Each, RangeBox |-> NoBox]

Documents ==
    [name \in {"P1", "Cable", "CableEach", "Rod", "SheetA", "SheetB", "Strip",
               "Bar", "Tube", "Pipe", "Rail", "Asm"} |->
        CASE name = "P1" -> ItemP1
          [] name = "Cable" -> ItemCable
          [] name = "CableEach" -> ItemCableEach
          [] name = "Rod" -> ItemRod
          [] name = "SheetA" -> ItemSheetA
          [] name = "SheetB" -> ItemSheetB
          [] name = "Strip" -> ItemStrip
          [] name = "Bar" -> ItemBar
          [] name = "Tube" -> ItemTube
          [] name = "Pipe" -> ItemPipe
          [] name = "Rail" -> ItemRail
          [] OTHER -> ItemAsm]

(***************************************************************************)
(* inventorapi.BOMRow, BOMView                                             *)
(***************************************************************************)
\* BOMRow.item: the document of the row's component; a row names it, and
\* Documents holds the documents by name
BOMRow_item(row) == Documents[row.document]

is_purchased(row) == row.bom_structure = "purchased"

is_normal(row) == row.bom_structure = "normal"

is_phantom(row) == row.bom_structure = "phantom"

get_child_rows(row) == row.ChildRows

\* BOMView.get_rows with its default bom_structures
get_rows(view) ==
    SelectSeq(view, LAMBDA row : row.bom_structure \in {"normal", "purchased", "phantom"})

\* Document.unit_quantity: "" when the base units cannot be set
unit_quantity(doc) ==
    IF doc.BOMQuantity.settable THEN doc.BOMQuantity.UnitQuantity ELSE <<>>

(***************************************************************************)
(* managerbom.ManagerBOM._collect_data                                     *)
(***************************************************************************)
_PURCHASED_ITEM_PROPERTIES ==
    <<"Part Number", "Description", "Project", "Vendor", "Stock Number">>

_MATERIAL_ITEM_PROPERTIES == <<"Part Number", "Description", "Material", "Mass">>

_FLAT_MATERIAL_PROPERTIES ==
    <<"Flat Pattern Width", "Flat Pattern Length", "Flat Pattern Area">>

\* dict.update: the keys of new replace those of old
Update(old, new) == new @@ old

\* lines 79-104: the data of a normal part, given its material data
MaterialRowData(row, row_data) ==
    IF is_modeling(BOMRow_item(row))
    THEN Update(Update(row_data, get_size(BOMRow_item(row))), "Type" :> "profile material")
    ELSE IF is_sheet_metal(BOMRow_item(row))
    THEN IF StartsWith(row_data["Material"], StripMarker)
         THEN LET size == get_properties(BOMRow_item(row),
                              <<"Flat Pattern Length", "Flat Pattern Width">>)
                  values == {size[k] : k \in DOMAIN size}
              IN  Update(row_data,
                         ("Size Z" :> Max(values) * 10) @@ ("Size X" :> Min(values) * 10)
                         @@ ("Size Y" :> 0) @@ ("Type" :> "profile material"))
         ELSE Update(Update(row_data,
                            get_properties(BOMRow_item(row), _FLAT_MATERIAL_PROPERTIES)),
                     "Type" :> "sheet material")
    ELSE row_data

\* lines 54-104: the row_data of one row
RowData(row, item_quantity) ==
    LET row_data == ("Unit Quantity" :> unit_quantity(BOMRow_item(row)))
                    @@ ("Item Quantity" :> item_quantity)
    IN  IF is_purchased(row)
        THEN Update(Update(row_data,
                           get_properties(BOMRow_item(row), _PURCHASED_ITEM_PROPERTIES)),
                    "Type" :> "purchased")
        ELSE IF is_normal(row) /\ is_part(BOMRow_item(row))
        THEN MaterialRowData(row,
                 Update(row_data, get_properties(BOMRow_item(row), _MATERIAL_ITEM_PROPERTIES)))
        ELSE row_data

\* CollectFrom with the children given the multiplier of their parent's
\* siblings instead of the parent's own quantity
RECURSIVE CollectFromSameMultiplier(_, _, _, _)
CollectFromSameMultiplier(rows, i, multiplier, path) ==
    IF i > Len(rows) THEN <<>>
    ELSE LET row == rows[i]
             item_quantity == row.item_quantity * multiplier
             here == Append(path, i)
             below == IF is_purchased(row) THEN <<>>
                      ELSE CollectFromSameMultiplier(get_child_rows(row), 1,
                                                     multiplier, here)
             row_data == RowData(row, item_quantity)
         IN  below
             \o <<[row |-> here, row_data |-> row_data,
                   appended |-> Cardinality(DOMAIN row_data) > 2]>>
             \o CollectFromSameMultiplier(rows, i + 1, multiplier, path)

\* CollectFrom recursing into purchased rows too
RECURSIVE CollectFromIntoPurchased(_, _, _, _)
CollectFromIntoPurchased(rows, i, multiplier, path) ==
    IF i > Len(rows) THEN <<>>
    ELSE LET row == rows[i]
             item_quantity == row.item_quantity * multiplier
             here == Append(path, i)
             below == CollectFromIntoPurchased(get_child_rows(row), 1,
                                               item_quantity, here)
             row_data == RowData(row, item_quantity)
         IN  below
             \o <<[row |-> here, row_data |-> row_data,
                   appended |-> Cardinality(DOMAIN row_data) > 2]>>
             \o CollectFromIntoPurchased(rows, i + 1, multiplier, path)

\* CollectFrom appending the row's own Record before it recurses
RECURSIVE CollectFromRowFirst(_, _, _, _)
CollectFromRowFirst(rows, i, multiplier, path) ==
    IF i > Len(rows) THEN <<>>
    ELSE LET row == rows[i]
             item_quantity == row.item_quantity * multiplier
             here == Append(path, i)
             below == IF is_purchased(row) THEN <<>>
                      ELSE CollectFromRowFirst(get_child_rows(row), 1,
                                               item_quantity, here)
             row_data == RowData(row, item_quantity)
         IN  <<[row |-> here, row_data |-> row_data,
                appended |-> Cardinality(DOMAIN row_data) > 2]>>
             \o below
             \o CollectFromRowFirst(rows, i + 1, multiplier, path)

\* The loop of _collect_data over rows[i..], as the sequence of its iterations
\* in the order in which they end (line 106): the row of the iteration (its
\* path of sibling indices from the top), its row_data, and whether line 107
\* appended it to self._data.  The recursion of line 71 comes before the row's
\* own event; a purchased row is not recursed into.
RECURSIVE CollectFrom(_, _, _, _)
CollectFrom(rows, i, multiplier, path) ==
    IF i > Len(rows) THEN <<>>
    ELSE LET row == rows[i]
             item_quantity == row.item_quantity * multiplier
             here == Append(path, i)
             below == IF is_purchased(row) THEN <<>>
                      ELSE CollectFrom(get_child_rows(row), 1, item_quantity, here)
             row_data == RowData(row, item_quantity)
             initial_row_data_size == 2
         IN  below
             \o <<[row |-> here, row_data |-> row_data,
                   appended |-> Cardinality(DOMAIN row_data) > initial_row_data_size]>>
             \o CollectFrom(rows, i + 1, multiplier, path)

_collect_data(rows, multiplier) == CollectFrom(rows, 1, multiplier, <<>>)

\* what a walk appends to self._data
Appended(events) ==
    LET kept == SelectSeq(events, LAMBDA e : e.appended)
    IN  [k \in 1..Len(kept) |-> kept[k].row_data]

(***************************************************************************)
(* Python numbers and strings used by the aggregators.                     *)
(* A quantity is [type |-> "int", value |-> n], [type |-> "float",         *)
(* value |-> v] with v the float in units of 1/10000, or, once formatted,   *)
(* [type |-> "str", value |-> s].                                           *)
(***************************************************************************)
PyInt(n) == [type |-> "int", value |-> n]

PyFloat(v) == [type |-> "float", value |-> v]

\* the float n / d, in units of 1/10000 (exact for the model's values)
Div(n, d) == (n * 10000) \div d

\* round(v, 2) of a float: to the nearest hundredth, a tie to the even one
Round2(v) ==
    LET low == (v \div 100) * 100
        rest == v % 100
    IN  IF rest < 50 THEN low
        ELSE IF rest > 50 THEN low + 100
        ELSE IF (low \div 100) % 2 = 0 THEN low ELSE low + 100

PyStr(s) == [type |-> "str", value |-> s]

\* str.rstrip(chars)
RECURSIVE RStrip(_, _)
RStrip(s, chars) ==
    IF s # <<>> /\ s[Len(s)] \in chars THEN RStrip(SubSeq(s, 1, Len(s) - 1), chars)
    ELSE s

RECURSIVE LStrip(_, _)
LStrip(s, chars) ==
    IF s # <<>> /\ Head(s) \in chars THEN LStrip(Tail(s), chars) ELSE s

\* the value of a digit string ("" is 0)
RECURSIVE DigitsValue(_)
DigitsValue(s) ==
    IF s = <<>> THEN 0
    ELSE DigitsValue(SubSeq(s, 1, Len(s) - 1)) * 10 + DigitValue(s[Len(s)])

\* str(n) of a natural number
RECURSIVE IntToStr(_)
IntToStr(n) ==
    IF n < 10 THEN <<Digits[n + 1]>>
    ELSE Append(IntToStr(n \div 10), Digits[(n % 10) + 1])

\* float(s) accepts s: surrounded by optional white space, digits with at most
\* one point and at least one digit (the model's strings hold no sign,
\* exponent, underscore, "inf" or "nan")
FloatAccepts(s) ==
    LET t == LStrip(RStrip(s, {" "}), {" "})
    IN  /\ \A i \in 1..Len(t) : IsDigit(t[i]) \/ t[i] = "."
        /\ Cardinality({i \in 1..Len(t) : t[i] = "."}) <= 1
        /\ \E i \in 1..Len(t) : IsDigit(t[i])

\* float(s), for an accepted s of at most four decimals
FloatValue(s) ==
    LET t == LStrip(RStrip(s, {" "}), {" "})
        dots == {i \in 1..Len(t) : t[i] = "."}
        dot == IF dots = {} THEN Len(t) + 1 ELSE Min(dots)
        whole == SubSeq(t, 1, dot - 1)
        frac == SubSeq(t, dot + 1, Len(t))
        padded == SubSeq(frac \o <<"0", "0", "0", "0">>, 1, 4)
    IN  DigitsValue(whole) * 10000 + DigitsValue(padded)

\* the characters line 129 strips: the space and the meter unit
MeterSuffixChars == {" ", "m"}

\* f"{x:.2f} m" of a float
FormatMeters(v) ==
    LET hundredths == Round2(v) \div 100
    IN  IntToStr(hundredths \div 100)
        \o <<".", Digits[((hundredths \div 10) % 10) + 1], Digits[(hundredths % 10) + 1]>>
        \o <<" ", "m">>

\* a + b of two quantities
PyAdd(a, b) ==
    IF a.type = "int" /\ b.type = "int" THEN PyInt(a.value + b.value)
    ELSE PyFloat((IF a.type = "int" THEN a.value * 10000 ELSE a.value)
                 + (IF b.type = "int" THEN b.value * 10000 ELSE b.value))

\* the order of tuples of str: the key of column 1 first
RECURSIVE TupleLess(_, _)
TupleLess(a, b) ==
    IF a = <<>> \/ b = <<>> THEN FALSE
    ELSE \/ StrLess(Head(a), Head(b))
         \/ Head(a) = Head(b) /\ TupleLess(Tail(a), Tail(b))

\* operator.itemgetter(*columns)(entry), columns counted from 1
ItemGetter(entry, columns) == [k \in 1..Len(columns) |-> entry[columns[k]]]

\* list.sort(key=itemgetter(*columns)): a stable insertion sort
RECURSIVE SortByColumns(_, _)
SortByColumns(list, columns) ==
    IF list = <<>> THEN <<>>
    ELSE LET init == SortByColumns(SubSeq(list, 1, Len(list) - 1), columns)
             last == list[Len(list)]
             \* last goes after every element that is not greater than it
             pos == Cardinality({k \in 1..Len(init) :
                        ~TupleLess(ItemGetter(last, columns), ItemGetter(init[k], columns))})
         IN  SubSeq(init, 1, pos) \o <<last>> \o SubSeq(init, pos + 1, Len(init))

(***************************************************************************)
(* ManagerBOM._summarize_purchased                                         *)
(***************************************************************************)
\* PurchasedQuantity without the item quantity of a measured Record
PurchasedQuantityOfOne(item) ==
    LET text == RStrip(item["Unit Quantity"], MeterSuffixChars)
    IN  IF FloatAccepts(text)
        THEN PyFloat(FloatValue(text))
        ELSE PyInt(1 * item["Item Quantity"])

\* lines 127-133
PurchasedQuantity(item) ==
    LET text == RStrip(item["Unit Quantity"], MeterSuffixChars)
    IN  IF FloatAccepts(text)
        THEN PyFloat(FloatValue(text) * item["Item Quantity"])
        ELSE PyInt(1 * item["Item Quantity"])

\* lines 123-141
PurchasedNewItem(item) ==
    LET project == item["Project"]
        vendor == item["Vendor"]
        description == IF Truthy(project) \/ Truthy(vendor)
                       THEN item["Description"] ELSE item["Part Number"]
    IN  <<description, project, vendor, PurchasedQuantity(item), item["Stock Number"]>>

\* lines 143-152: every entry with the description of new_item takes its
\* quantity; new_item is appended when there is none
PurchasedMerge(purchased, new_item) ==
    IF \E k \in 1..Len(purchased) : new_item[1] = purchased[k][1]
    THEN [k \in 1..Len(purchased) |->
            IF new_item[1] = purchased[k][1]
            THEN [purchased[k] EXCEPT ![4] = PyAdd(purchased[k][4], new_item[4])]
            ELSE purchased[k]]
    ELSE Append(purchased, new_item)

\* the loop of lines 122-152
RECURSIVE PurchasedFold(_)
PurchasedFold(items) ==
    IF items = <<>> THEN <<>>
    ELSE PurchasedMerge(PurchasedFold(SubSeq(items, 1, Len(items) - 1)),
                        PurchasedNewItem(items[Len(items)]))

\* lines 154-157
PurchasedFormat(entry) ==
    IF entry[4].type = "float"
    THEN [entry EXCEPT ![4] = PyStr(FormatMeters(entry[4].value))]
    ELSE entry

\* line 160 sorts by itemgetter(2, 0): vendor, then description
_summarize_purchased(records) ==
    LET items == SelectSeq(records, LAMBDA i : i["Type"] = "purchased")
        purchased == PurchasedFold(items)
    IN  SortByColumns([k \in 1..Len(purchased) |-> PurchasedFormat(purchased[k])],
                      <<3, 1>>)

(***************************************************************************)
(* ManagerBOM._summarize_unified                                           *)
(***************************************************************************)
\* lines 181-190
UnifiedMerge(unified, new_item) ==
    IF \E k \in 1..Len(unified) : new_item[1] = unified[k][1]
    THEN [k \in 1..Len(unified) |->
            IF new_item[1] = unified[k][1]
            THEN [unified[k] EXCEPT ![3] = unified[k][3] + new_item[3]]
            ELSE unified[k]]
    ELSE Append(unified, new_item)

\* the loop of lines 174-190
RECURSIVE UnifiedFold(_)
UnifiedFold(items) ==
    IF items = <<>> THEN <<>>
    ELSE LET item == items[Len(items)]
         IN  UnifiedMerge(UnifiedFold(SubSeq(items, 1, Len(items) - 1)),
                 <<item["Part Number"], item["Description"], item["Item Quantity"]>>)

\* line 193 sorts by the part number
_summarize_unified(records) ==
    LET items == SelectSeq(records,
                     LAMBDA i : StartsWith(i["Part Number"], UnifiedPrefix))
    IN  SortByColumns(UnifiedFold(items), <<1>>)

(***************************************************************************)
(* ManagerBOM._summarize_sheet_material                                    *)
(* A call that raises returns [raised |-> the exception]; one that returns  *)
(* gives [raised |-> "", value |-> the list].                               *)
(***************************************************************************)
\* lines 209-216
SheetNewItem(item) ==
    LET quantity == item["Item Quantity"]
    IN  <<item["Material"],
          Div(item["Mass"], 1000) * quantity,
          Div(item["Flat Pattern Area"], 10000) * quantity>>

\* lines 218-226
SheetMerge(sheet_material, new_item) ==
    IF \E k \in 1..Len(sheet_material) : new_item[1] = sheet_material[k][1]
    THEN [k \in 1..Len(sheet_material) |->
            IF new_item[1] = sheet_material[k][1]
            THEN [sheet_material[k] EXCEPT ![2] = @ + new_item[2], ![3] = @ + new_item[3]]
            ELSE sheet_material[k]]
    ELSE Append(sheet_material, new_item)

\* the loop of lines 208-226
RECURSIVE SheetFold(_)
SheetFold(items) ==
    IF items = <<>> THEN <<>>
    ELSE SheetMerge(SheetFold(SubSeq(items, 1, Len(items) - 1)),
                    SheetNewItem(items[Len(items)]))

\* Lines 228-230 round item, not material.  After the loop of line 208, item
\* is what the inner loop of line 219 bound last: the last entry the list had
\* before the last Record was merged; when that list was empty (one Record),
\* item is still the Record itself, a dict without the key 1, and item[1]
\* raises KeyError.
_summarize_sheet_material(records) ==
    LET items == SelectSeq(records, LAMBDA i : i["Type"] = "sheet material")
        sheet_material == SheetFold(items)
        before == SheetFold(SubSeq(items, 1, Len(items) - 1))
        stale == Len(before)
    IN  IF items = <<>> THEN [raised |-> "", value |-> <<>>]
        ELSE IF stale = 0 THEN [raised |-> "KeyError"]
        ELSE [raised |-> "",
              value |-> [sheet_material EXCEPT
                            ![stale] = <<@[1], Round2(@[2]), Round2(@[3])>>]]

(***************************************************************************)
(* ManagerBOM._summarize_profile_material                                  *)
(***************************************************************************)
\* the length of the run of digits at the head of s
RECURSIVE DigitRun(_)
DigitRun(s) == IF s # <<>> /\ IsDigit(Head(s)) THEN 1 + DigitRun(Tail(s)) ELSE 0

\* re.match(r"(\d+).(\d+)?", material).groups(), or "" when there is no match
\* (lines 254-258): the digits at the head, any one character, and the digits
\* that follow it, None when there are none.  When the material is digits
\* only, the last of them is the one character.
ProfileSize(material) ==
    LET run == DigitRun(material)
        first == IF run = Len(material) THEN run - 1 ELSE run
        rest == SubSeq(material, first + 2, Len(material))
        second == SubSeq(rest, 1, DigitRun(rest))
    IN  IF first <= 0 THEN <<>>
        ELSE <<SubSeq(material, 1, first),
               IF second = <<>> THEN NoneValue ELSE second>>

\* str.upper() on the letters of the answers
Upper(s) ==
    [k \in 1..Len(s) |->
        CASE s[k] = "x" -> "X" [] s[k] = "y" -> "Y" [] s[k] = "z" -> "Z"
          [] OTHER -> s[k]]

Axes == {<<"X">>, <<"Y">>, <<"Z">>}

\* the loop of lines 263-268 on the lines left on the standard input: the
\* axis and the lines left after it; input() raises EOFError on none
RECURSIVE AskAxis(_)
AskAxis(stdin) ==
    IF stdin = <<>> THEN [raised |-> "EOFError"]
    ELSE IF Upper(Head(stdin)) \in Axes
    THEN [raised |-> "", axis |-> Upper(Head(stdin)), stdin |-> Tail(stdin)]
    ELSE AskAxis(Tail(stdin))

\* line 262 as a test of str(Size Z) in the text of the first group
AxisAskedInText(item) ==
    LET profile_size == ProfileSize(item["Material"])
        size == IntToStr(item["Size Z"])
    IN  /\ profile_size # <<>>
        /\ \E k \in 1..(Len(profile_size[1]) - Len(size) + 1) :
              SubSeq(profile_size[1], k, k + Len(size) - 1) = size

\* line 262: the membership test on the tuple of groups ("" holds nothing)
AxisAsked(item) ==
    LET profile_size == ProfileSize(item["Material"])
    IN  \E k \in 1..Len(profile_size) : IntToStr(item["Size Z"]) = profile_size[k]

\* lines 260-268
ChooseAxis(item, stdin) ==
    IF AxisAsked(item) THEN AskAxis(stdin)
    ELSE [raised |-> "", axis |-> <<"Z">>, stdin |-> stdin]

SizeKey(axis) ==
    CASE axis = <<"X">> -> "Size X" [] axis = <<"Y">> -> "Size Y" [] OTHER -> "Size Z"

\* lines 247-250, 270-273
ProfileNewItem(item, axis) ==
    LET quantity == item["Item Quantity"]
    IN  <<item["Material"],
          Div(item["Mass"], 1000) * quantity,
          Div(item[SizeKey(axis)], 1000) * quantity>>

\* lines 275-283
ProfileMerge(profile_material, new_item) ==
    IF \E k \in 1..Len(profile_material) : new_item[1] = profile_material[k][1]
    THEN [k \in 1..Len(profile_material) |->
            IF new_item[1] = profile_material[k][1]
            THEN [profile_material[k] EXCEPT ![2] = @ + new_item[2], ![3] = @ + new_item[3]]
            ELSE profile_material[k]]
    ELSE Append(profile_material, new_item)

\* the loop of lines 246-283, reading the answers from stdin
RECURSIVE ProfileFold(_, _)
ProfileFold(items, stdin) ==
    IF items = <<>> THEN [raised |-> "", value |-> <<>>, stdin |-> stdin]
    ELSE LET done == ProfileFold(SubSeq(items, 1, Len(items) - 1), stdin)
             item == items[Len(items)]
             choice == ChooseAxis(item, done.stdin)
         IN  IF done.raised # "" THEN done
             ELSE IF choice.raised # "" THEN [raised |-> choice.raised]
             ELSE [raised |-> "",
                   value |-> ProfileMerge(done.value, ProfileNewItem(item, choice.axis)),
                   stdin |-> choice.stdin]

_summarize_profile_material(records, stdin) ==
    ProfileFold(SelectSeq(records, LAMBDA i : i["Type"] = "profile material"), stdin)

(***************************************************************************)
(* The template workbook and the sinks.                                    *)
(* The template is a sequence of four sheets (sheetnames[0..3]): profile    *)
(* material, sheet material, purchased, unified.  A material sheet is the   *)
(* sequence of its rows, [J, D, G, font]; a list sheet maps a row number to *)
(* the row's cells, a function of the column number.                        *)
(***************************************************************************)
\* Font(color="FF0000") of line 317
highlight == "FF0000"

\* line 323 without the test of cell.value
CellMatchesEmpty(cell_value, item) == StartsWith(item[1], cell_value)

\* line 323
CellMatches(cell_value, item) == Truthy(cell_value) /\ StartsWith(item[1], cell_value)

\* the loop of lines 321-331 for one item
TransferItem(sheet, item) ==
    [row \in 1..Len(sheet) |->
        IF CellMatches(sheet[row].J, item)
        THEN [sheet[row] EXCEPT !.font = highlight, !.D = item[2], !.G = item[3]]
        ELSE sheet[row]]

\* lines 320-334 for one item: is it appended to self._exceptions
Excepted(sheet, item) == ~\E row \in 1..Len(sheet) : CellMatches(sheet[row].J, item)

\* _transfer_material: the sheet and self._exceptions after the loop of line 319
RECURSIVE _transfer_material(_, _, _)
_transfer_material(sheet, items, excepted) ==
    IF items = <<>> THEN [sheet |-> sheet, exceptions |-> excepted]
    ELSE _transfer_material(TransferItem(sheet, Head(items)), Tail(items),
                            IF Excepted(sheet, Head(items))
                            THEN Append(excepted, Head(items)) ELSE excepted)

\* _transfer: row 3 + i holds i + 1 in column A and the entry from column B
_transfer(sheet, items) ==
    LET start_row == 3
        written == start_row..(start_row + Len(items) - 1)
    IN  [row \in DOMAIN sheet \cup written |->
            IF row \in written
            THEN LET i == row - start_row
                     item == items[i + 1]
                     cells == [column \in 1..(Len(item) + 1) |->
                                  IF column = 1 THEN i + 1 ELSE item[column - 1]]
                 IN  IF row \in DOMAIN sheet THEN cells @@ sheet[row] ELSE cells
            ELSE sheet[row]]

(***************************************************************************)
(* The state of a ManagerBOM and of what it was constructed on.            *)
(***************************************************************************)
VARIABLES
    bom_view,    \* self._bom_view: the rows of the assembly's raw BOM view
    document,    \* a Document on which get_properties is called
    template,    \* self._template: the workbook
    data,        \* self._data
    exceptions,  \* self._exceptions
    walk,        \* the iterations of the last _collect_data (CollectFrom)
    summary,     \* what each _summarize_* of the last call returned or raised
    raised,      \* the exception that ended the last call, "" when it returned
    calls,       \* the number of calls made
    call         \* the last call: its method, its arguments, what it returned

vars ==
    <<bom_view, document, template, data, exceptions, walk, summary, raised,
      calls, call>>

NotCalled == [called |-> FALSE]

Called(result) == [called |-> TRUE] @@ result

NoSummary ==
    [profile |-> NotCalled, sheet |-> NotCalled, purchased |-> NotCalled,
     unified |-> NotCalled]

(***************************************************************************)
(* ManagerBOM.issue_bom, stage by stage.  A stage takes and gives the       *)
(* running state [template, exceptions, summary, raised, stdin] of the call; *)
(* once a stage has raised, the stages after it do not run.                 *)
(***************************************************************************)
\* lines 344-347 with _transfer_profile_material
StageProfile(run, records, enabled) ==
    IF run.raised # "" \/ ~enabled THEN run
    ELSE LET result == _summarize_profile_material(records, run.stdin)
             moved == _transfer_material(run.template[1], result.value, run.exceptions)
         IN  IF result.raised # ""
             THEN [run EXCEPT !.raised = result.raised,
                              !.summary.profile = Called([raised |-> result.raised])]
             ELSE [run EXCEPT !.template[1] = moved.sheet,
                              !.exceptions = moved.exceptions,
                              !.stdin = result.stdin,
                              !.summary.profile =
                                  Called([raised |-> "", value |-> result.value])]

\* lines 349-352 with _transfer_sheet_material
StageSheet(run, records, enabled) ==
    IF run.raised # "" \/ ~enabled THEN run
    ELSE LET result == _summarize_sheet_material(records)
             moved == _transfer_material(run.template[2], result.value, run.exceptions)
         IN  IF result.raised # ""
             THEN [run EXCEPT !.raised = result.raised,
                              !.summary.sheet = Called(result)]
             ELSE [run EXCEPT !.template[2] = moved.sheet,
                              !.exceptions = moved.exceptions,
                              !.summary.sheet = Called(result)]

\* lines 354-357 with _transfer_purchased
StagePurchased(run, records, enabled) ==
    IF run.raised # "" \/ ~enabled THEN run
    ELSE LET result == _summarize_purchased(records)
         IN  [run EXCEPT !.template[3] = _transfer(run.template[3], result),
                         !.summary.purchased = Called([raised |-> "", value |-> result])]

\* lines 359-362 with _transfer_unified
StageUnified(run, records, enabled) ==
    IF run.raised # "" \/ ~enabled THEN run
    ELSE LET result == _summarize_unified(records)
         IN  [run EXCEPT !.template[4] = _transfer(run.template[4], result),
                         !.summary.unified = Called([raised |-> "", value |-> result])]

(***************************************************************************)
(* The BOM rows and templates the model is run on.                         *)
(***************************************************************************)
Row(structure, name, quantity, children) ==
    [bom_structure |-> structure, document |-> name, item_quantity |-> quantity,
     ChildRows |-> children]

\* the kinds of row of the generated trees: a purchased row, a normal part
\* (it gives a Record and is recursed into), a phantom and a normal assembly
\* (recursed into, no Record)
RowKinds ==
    {<<"purchased", "P1">>, <<"normal", "Bar">>, <<"phantom", "Asm">>,
     <<"normal", "Asm">>}

\* The shapes of the ordered forests of exactly k rows, for every k up to n.
\* A shape is the sequence of its top rows, each the shape of its child rows.
RECURSIVE ShapesUpTo(_)
ShapesUpTo(n) ==
    IF n = 0 THEN 0 :> {<<>>}
    ELSE LET smaller == ShapesUpTo(n - 1)
         IN  smaller @@
             (n :> UNION {
                    {<<children>> \o siblings :
                        children \in smaller[below], siblings \in smaller[n - 1 - below]}
                    : below \in 0..(n - 1)})

RECURSIVE ShapeSize(_)
ShapeSize(shape) ==
    IF shape = <<>> THEN 0
    ELSE 1 + ShapeSize(Head(shape)) + ShapeSize(Tail(shape))

\* the rows of a shape; the k-th row in depth-first order is of kind kinds[k]
\* and has quantity quantities[k], counting from after
RECURSIVE RowsOfShape(_, _, _, _)
RowsOfShape(shape, kinds, quantities, after) ==
    IF shape = <<>> THEN <<>>
    ELSE <<Row(kinds[after + 1][1], kinds[after + 1][2], quantities[after + 1],
               RowsOfShape(Head(shape), kinds, quantities, after + 1))>>
         \o RowsOfShape(Tail(shape), kinds, quantities,
                        after + 1 + ShapeSize(Head(shape)))

\* view is a tree of at most rows rows, of any shape, kinds and quantities
IsGeneratedTree(view, rows) ==
    \E n \in 0..rows :
        \E shape \in ShapesUpTo(rows)[n] :
            \E kinds \in [1..n -> RowKinds], quantities \in [1..n -> 1..MaxQty] :
                view = RowsOfShape(shape, kinds, quantities, 0)

\* the two-level tree of the end-to-end test: a purchased "P-1" three times and
\* a normal sheet-metal part of "Sheet-A" twice
EndToEndTree ==
    <<Row("purchased", "P1", 3, <<>>), Row("normal", "SheetA", 2, <<>>)>>

\* trees of the other kinds of row
OtherTrees ==
    {EndToEndTree,
     <<Row("normal", "SheetA", 1, <<>>), Row("normal", "SheetB", 1, <<>>),
       Row("normal", "Asm", 2, <<Row("normal", "SheetA", 3, <<>>)>>)>>,
     <<Row("normal", "SheetB", 1, <<>>), Row("normal", "SheetA", 1, <<>>),
       Row("purchased", "Cable", 2, <<>>)>>,
     <<Row("normal", "Asm", 2,
           <<Row("normal", "Tube", 1, <<>>), Row("normal", "Strip", 2, <<>>),
             Row("reference", "Bar", 1, <<>>)>>),
       Row("reference", "Asm", 1, <<Row("normal", "Bar", 1, <<>>)>>),
       Row("purchased", "Cable", 1, <<>>), Row("purchased", "P1", 2, <<>>)>>}

MaterialRow(key) == [J |-> key, D |-> NoneValue, G |-> NoneValue, font |-> "default"]

NoSheet == <<>>

NoTemplate == <<NoSheet, NoSheet, NoSheet, NoSheet>>

\* a template whose material sheets name the materials, and one that names none
Templates ==
    {<<<<MaterialRow(NoneValue), MaterialRow(<<"B", "a", "r">>),
         MaterialRow(<<"2", "0">>), MaterialRow(<<"B">>)>>,
       <<MaterialRow(<<"S", "h", "e", "e", "t">>), MaterialRow(<<>>)>>,
       NoSheet, NoSheet>>,
     <<<<MaterialRow(NoneValue)>>, <<>>, NoSheet, NoSheet>>}

\* the lines typed at the prompts of one call
Stdins == {<<>>, <<<<"x">>>>, <<<<"q">>, <<"Y">>>>, <<<<"q">>>>, <<<<"z">>, <<"x">>>>}

NoCall == [method |-> ""]

\* the fields __init__ sets (lines 29-34), but the assembly, the template and
\* self._data
Constructed ==
    /\ document = ItemAsm
    /\ exceptions = <<>>
    /\ walk = <<>>
    /\ summary = NoSummary
    /\ raised = ""
    /\ calls = 0
    /\ call = NoCall

(***************************************************************************)
(* Spec: a ManagerBOM on an assembly and a template, and its issue_bom.     *)
(***************************************************************************)
Init ==
    /\ Constructed
    /\ data = <<>>
    /\ \/ IsGeneratedTree(bom_view, MaxIssuedRows)
       \/ bom_view \in OtherTrees
    /\ template \in Templates

\* one call of issue_bom (lines 336-369), stage by stage; the lines typed at
\* its prompts are those the call reads; a call that raised is the last
IssueBom ==
    /\ calls < MaxCalls
    /\ raised = ""
    /\ \E profile_material, sheet_material, purchased, unified \in BOOLEAN :
       \E stdin \in Stdins :
       \E events \in {_collect_data(get_rows(bom_view), 1)} :
       \E records \in {data \o Appended(events)} :
       \E profile \in {StageProfile([template |-> template, exceptions |-> exceptions,
                                     summary |-> NoSummary, raised |-> "",
                                     stdin |-> stdin],
                                    records, profile_material)} :
       \E sheet \in {StageSheet(profile, records, sheet_material)} :
       \E bought \in {StagePurchased(sheet, records, purchased)} :
       \E end \in {StageUnified(bought, records, unified)} :
          /\ IF end.raised = "EOFError" THEN TRUE ELSE end.stdin = <<>>
          /\ walk' = events
          /\ data' = records
          /\ template' = end.template
          /\ exceptions' = end.exceptions
          /\ summary' = end.summary
          /\ raised' = end.raised
          /\ call' = [method |-> "issue_bom",
                      profile_material |-> profile_material,
                      sheet_material |-> sheet_material,
                      purchased |-> purchased, unified |-> unified,
                      stdin |-> stdin]
    /\ calls' = calls + 1
    /\ UNCHANGED <<bom_view, document>>

Next == IssueBom

Spec == Init /\ [][Next]_vars

(***************************************************************************)
(* SpecWalk: _collect_data(self._bom_view.get_rows()) on a new ManagerBOM.  *)
(***************************************************************************)
InitWalk ==
    /\ Constructed
    /\ data = <<>>
    /\ \/ IsGeneratedTree(bom_view, MaxRows)
       \/ bom_view \in OtherTrees
    /\ template = NoTemplate

\* line 340, on the ManagerBOM as constructed
CollectData ==
    /\ calls = 0
    /\ walk' = _collect_data(get_rows(bom_view), 1)
    /\ data' = data \o Appended(walk')
    /\ calls' = calls + 1
    /\ call' = [method |-> "_collect_data"]
    /\ UNCHANGED <<bom_view, document, template, exceptions, summary, raised>>

NextWalk == CollectData

SpecWalk == InitWalk /\ [][NextWalk]_vars

(***************************************************************************)
(* SpecSummarize: the four _summarize_* on a self._data of any Records.     *)
(***************************************************************************)
\* the rows whose Records are summarized: every category, materials and
\* purchased keys that repeat, measured and counted quantities
SummarizedRows ==
    {Row("purchased", "P1", 4, <<>>), Row("purchased", "Cable", 4, <<>>),
     Row("purchased", "CableEach", 1, <<>>), Row("purchased", "Rod", 2, <<>>),
     Row("normal", "SheetA", 2, <<>>), Row("normal", "SheetB", 3, <<>>),
     Row("normal", "Bar", 3, <<>>), Row("normal", "Tube", 1, <<>>),
     Row("normal", "Strip", 2, <<>>), Row("normal", "Pipe", 2, <<>>),
     Row("normal", "Rail", 1, <<>>)}

\* the Records the walk makes of them
RecordPool == {RowData(row, row.item_quantity * 1) : row \in SummarizedRows}

InitSummarize ==
    /\ Constructed
    /\ bom_view = <<>>
    /\ template = NoTemplate
    /\ \E n \in 0..MaxRecords : data \in [1..n -> RecordPool]

\* what a call of one aggregator leaves
Summarized(method, result, stdin) ==
    /\ raised' = result.raised
    /\ call' = [method |-> method, stdin |-> stdin]
    /\ UNCHANGED <<bom_view, document, template, data, exceptions, walk, calls>>

SummarizePurchased ==
    LET result == [raised |-> "", value |-> _summarize_purchased(data)]
    IN  /\ summary' = [NoSummary EXCEPT !.purchased = Called(result)]
        /\ Summarized("_summarize_purchased", result, <<>>)

SummarizeUnified ==
    LET result == [raised |-> "", value |-> _summarize_unified(data)]
    IN  /\ summary' = [NoSummary EXCEPT !.unified = Called(result)]
        /\ Summarized("_summarize_unified", result, <<>>)

SummarizeSheetMaterial ==
    LET result == _summarize_sheet_material(data)
    IN  /\ summary' = [NoSummary EXCEPT !.sheet = Called(result)]
        /\ Summarized("_summarize_sheet_material", result, <<>>)

\* the lines typed are those the call reads
SummarizeProfileMaterial ==
    \E stdin \in Stdins :
        LET result == _summarize_profile_material(data, stdin)
        IN  /\ IF result.raised # "" THEN result.raised = "EOFError"
               ELSE result.stdin = <<>>
            /\ summary' = [NoSummary EXCEPT !.profile =
                    Called(IF result.raised # "" THEN [raised |-> result.raised]
                           ELSE [raised |-> "", value |-> result.value])]
            /\ Summarized("_summarize_profile_material", result, stdin)

NextSummarize ==
    \/ SummarizePurchased
    \/ SummarizeUnified
    \/ SummarizeSheetMaterial
    \/ SummarizeProfileMaterial

SpecSummarize == InitSummarize /\ [][NextSummarize]_vars

(***************************************************************************)
(* The walk: claims C1, C2, C8.                                            *)
(***************************************************************************)
\* the row at a path of sibling indices
RECURSIVE RowAt(_, _)
RowAt(rows, path) ==
    IF Len(path) = 1 THEN rows[path[1]]
    ELSE RowAt(rows[path[1]].ChildRows, Tail(path))

\* the product of the item quantities of the rows along a path
RECURSIVE PathProduct(_, _)
PathProduct(rows, path) ==
    IF path = <<>> THEN 1
    ELSE rows[path[1]].item_quantity * PathProduct(rows[path[1]].ChildRows, Tail(path))

\* the iterations of the walk that appended a Record: the k-th gave data[k]
Emitted == SelectSeq(walk, LAMBDA e : e.appended)

Walked == call.method = "_collect_data"

IsProperPrefix(p, q) == Len(p) < Len(q) /\ SubSeq(q, 1, Len(p)) = p

Prefixes(path) == {SubSeq(path, 1, n) : n \in 1..Len(path)}

\* p lies in the subtree of an earlier sibling than q does
EarlierSibling(p, q) ==
    \E d \in 1..Min({Len(p), Len(q)}) :
        /\ SubSeq(p, 1, d - 1) = SubSeq(q, 1, d - 1)
        /\ p[d] < q[d]

\* C1: after the walk started with multiplier 1, every Record of self._data
\* holds as "Item Quantity" the product of the item quantities of the row it
\* was emitted for and of all that row's ancestors, whatever their kinds.
C1_QuantityIsPathProduct ==
    Walked =>
        /\ Len(data) = Len(Emitted)
        /\ \A k \in 1..Len(data) :
              /\ data[k] = Emitted[k].row_data
              /\ data[k]["Item Quantity"]
                    = PathProduct(get_rows(bom_view), Emitted[k].row)

\* a Record of a row two levels down, whose ancestors are a phantom and a
\* normal row, all three with quantity 2
C1_Witness ==
    /\ Walked
    /\ \E k \in 1..Len(data) :
          LET path == Emitted[k].row
              rows == get_rows(bom_view)
          IN  /\ Len(path) = 3
              /\ data[k]["Item Quantity"] = 8
              /\ {RowAt(rows, SubSeq(path, 1, 1)).bom_structure,
                  RowAt(rows, SubSeq(path, 1, 2)).bom_structure}
                    = {"phantom", "normal"}

\* C2: a purchased row reached by the walk gives exactly one Record, tagged
\* "purchased", and no row below a purchased row is visited or gives a Record.
C2_PurchasedRowsAreLeaves ==
    Walked =>
        \A i \in 1..Len(walk) :
            LET rows == get_rows(bom_view)
            IN  /\ \A p \in Prefixes(walk[i].row) \ {walk[i].row} :
                      ~is_purchased(RowAt(rows, p))
                /\ is_purchased(RowAt(rows, walk[i].row)) =>
                      /\ walk[i].appended
                      /\ walk[i].row_data["Type"] = "purchased"
                      /\ \A j \in 1..Len(walk) : walk[j].row = walk[i].row => j = i

\* a purchased row with child rows was walked, below a row that is not
\* purchased
C2_Witness ==
    /\ Walked
    /\ \E i \in 1..Len(walk) :
          /\ Len(walk[i].row) = 2
          /\ is_purchased(RowAt(get_rows(bom_view), walk[i].row))
          /\ RowAt(get_rows(bom_view), walk[i].row).ChildRows # <<>>

\* C8 as claimed: the Record of a row precedes the Records of its descendants,
\* and the Records of an earlier sibling's subtree precede those of a later
\* sibling's subtree.
C8_PreOrder ==
    Walked =>
        \A i, j \in 1..Len(Emitted) :
            /\ IsProperPrefix(Emitted[i].row, Emitted[j].row) => i < j
            /\ EarlierSibling(Emitted[i].row, Emitted[j].row) => i < j

\* C8 as amended: the Record of a row follows the Records of its descendants
\* (line 71 recurses before line 107 appends), and the Records of an earlier
\* sibling's subtree precede those of a later sibling's subtree.
C8_ChildrenFirst ==
    Walked =>
        \A i, j \in 1..Len(Emitted) :
            /\ IsProperPrefix(Emitted[i].row, Emitted[j].row) => j < i
            /\ EarlierSibling(Emitted[i].row, Emitted[j].row) => i < j

\* a normal part with a child that gives a Record, and a later sibling
C8_Witness ==
    /\ Walked
    /\ \E i, j, k \in 1..Len(Emitted) :
          /\ IsProperPrefix(Emitted[i].row, Emitted[j].row)
          /\ EarlierSibling(Emitted[i].row, Emitted[k].row)

(***************************************************************************)
(* SpecTransfer: one _transfer_material on a material sheet of the          *)
(* template, after transfers that may have left exceptions.                 *)
(***************************************************************************)
\* what column J of a material sheet holds: nothing, the empty text, names of
\* materials and beginnings of names
SheetKeys ==
    {NoneValue, <<>>, <<"S", "t", "e", "e", "l", " ", "1", "0">>,
     <<"S", "t", "e", "e", "l">>, <<"B", "a", "r">>,
     <<"S", "t", "e", "e", "l", " ", "1", "0", "x", "2", "0", "x">>}

MaterialSheets == UNION {[1..n -> {MaterialRow(key) : key \in SheetKeys}] : n \in 0..MaxSheetRows}

\* the materials of the entries of a summary
SummaryMaterials ==
    {<<"S", "t", "e", "e", "l", " ", "1", "0", "x", "2", "0">>,
     <<"S", "t", "e", "e", "l", " ", "2", "x", "4">>, <<"B", "a", "r">>}

SummaryEntries == {<<material, mass, Div(1, 2)>> :
                      material \in SummaryMaterials, mass \in {Div(1, 1), Div(5, 2)}}

\* a summary has one entry for a material
SummaryLists ==
    {items \in UNION {[1..n -> SummaryEntries] : n \in 0..Min({MaxRecords, 3})} :
        \A j, k \in 1..Len(items) : items[j][1] = items[k][1] => j = k}

\* the sheet _transfer_sheet_material writes to, when it is not the one drawn
SheetOfSheetMaterial == <<MaterialRow(<<"S", "t", "e", "e", "l">>), MaterialRow(<<>>)>>

InitTransfer ==
    /\ document = ItemAsm
    /\ bom_view = <<>>
    /\ data = <<>>
    /\ walk = <<>>
    /\ summary = NoSummary
    /\ raised = ""
    /\ calls = 0
    /\ call = NoCall
    /\ exceptions \in {<<>>, <<<<<<"B", "a", "r">>, Div(1, 1), Div(1, 2)>>>>}
    /\ \E sheet \in MaterialSheets :
          template = <<sheet, SheetOfSheetMaterial, NoSheet, NoSheet>>

\* _transfer_material(sheet, data) of lines 306-312: sheet is sheetnames[0]
\* or sheetnames[1] of the template
TransferMaterial ==
    /\ calls = 0
    /\ \E index \in {1, 2}, items \in SummaryLists :
          LET result == _transfer_material(template[index], items, exceptions)
          IN  /\ template' = [template EXCEPT ![index] = result.sheet]
              /\ exceptions' = result.exceptions
              /\ call' = [method |-> "_transfer_material", sheet |-> index,
                          data |-> items]
    /\ calls' = calls + 1
    /\ UNCHANGED <<bom_view, document, data, walk, summary, raised>>

NextTransfer == TransferMaterial

SpecTransfer == InitTransfer /\ [][NextTransfer]_vars

(***************************************************************************)
(* SpecProperties: Document.get_properties on a document that holds each    *)
(* property in one property set or in none.                                 *)
(***************************************************************************)
RequestedProperties == {"Part Number", "Description", "Vendor"}

PropertyValues == {<<"P", "-", "1">>, <<"V">>}

\* the property sets in which set[p] holds p, 0 for no set, with value[p]
PropertySetsOf(set, value) ==
    [k \in 1..Len(_PROPERTY_SETS) |->
        [p \in {q \in RequestedProperties : set[q] = k} |-> value[p]]]

InitProperties ==
    /\ bom_view = <<>>
    /\ template = NoTemplate
    /\ data = <<>>
    /\ exceptions = <<>>
    /\ walk = <<>>
    /\ summary = NoSummary
    /\ raised = ""
    /\ calls = 0
    /\ call = NoCall
    /\ \E set \in [RequestedProperties -> 0..Len(_PROPERTY_SETS)],
          value \in [RequestedProperties -> PropertyValues] :
          document = [SubType |-> "modeling",
                      PropertySets |-> PropertySetsOf(set, value),
                      BOMQuantity |-> Each, RangeBox |-> NoBox]

\* a call of get_properties with a tuple of property names
GetProperties ==
    /\ calls < MaxCalls
    /\ \E n \in 0..MaxProperties :
       \E properties \in [1..n -> RequestedProperties] :
          call' = [method |-> "get_properties", properties |-> properties,
                   value |-> get_properties(document, properties)]
    /\ calls' = calls + 1
    /\ UNCHANGED <<bom_view, document, template, data, exceptions, walk,
                   summary, raised>>

NextProperties == GetProperties

SpecProperties == InitProperties /\ [][NextProperties]_vars

(***************************************************************************)
(* issue_bom end to end: claim C3.                                         *)
(***************************************************************************)
AllFlags ==
    /\ call.method = "issue_bom"
    /\ call.profile_material /\ call.sheet_material
    /\ call.purchased /\ call.unified

\* C3: on the two-level tree of the end-to-end test, issue_bom with all four
\* flags returns, with one purchased aggregate of key "P-1" and quantity 3 and
\* one sheet-material aggregate ["Sheet-A", 0.2 kg, 0.1 m2].
C3_EndToEnd ==
    (bom_view = EndToEndTree /\ calls = 1 /\ AllFlags) =>
        /\ raised = ""
        /\ Len(summary.purchased.value) = 1
        /\ summary.purchased.value[1][1] = <<"P", "-", "1">>
        /\ summary.purchased.value[1][4] = PyInt(3)
        /\ summary.sheet.value
              = <<<<<<"S", "h", "e", "e", "t", "-", "A">>, Div(2, 10), Div(1, 10)>>>>

(***************************************************************************)
(* The aggregators: claims C4, C5, C6, C10.                                *)
(***************************************************************************)
RECURSIVE SumOf(_)
SumOf(numbers) == IF numbers = <<>> THEN 0 ELSE Head(numbers) + SumOf(Tail(numbers))

OfType(records, type) == SelectSeq(records, LAMBDA r : r["Type"] = type)

SheetRecords == OfType(data, "sheet material")

ProfileRecords == OfType(data, "profile material")

PurchasedRecords == OfType(data, "purchased")

MaterialsOf(records) == {records[k]["Material"] : k \in 1..Len(records)}

Entries(list) == {list[k] : k \in 1..Len(list)}

\* the Records of a material, in the order of the list
OfMaterial(records, material) == SelectSeq(records, LAMBDA r : r["Material"] = material)

\* kilograms of a Record: Mass / 1000 x Item Quantity
Kilograms(r) == Div(r["Mass"] * r["Item Quantity"], 1000)

\* an entry's number has at most two decimal places
TwoDecimals(v) == v % 100 = 0

\* C10: when self._data holds a sheet-material Record,
\* _summarize_sheet_material returns, and every entry of its list has its mass
\* and its area rounded to two decimal places.
C10_SheetRounded ==
    (summary.sheet.called /\ SheetRecords # <<>>) =>
        /\ summary.sheet.raised = ""
        /\ \A entry \in Entries(summary.sheet.value) :
              TwoDecimals(entry[2]) /\ TwoDecimals(entry[3])

\* C5 for the sheet summary: one entry per material of the sheet-material
\* Records, its mass the sum of Mass / 1000 x Item Quantity and its area the
\* sum of Flat Pattern Area / 10000 x Item Quantity.
C5_SheetTotals ==
    summary.sheet.called =>
        /\ summary.sheet.raised = ""
        /\ Len(summary.sheet.value) = Cardinality(MaterialsOf(SheetRecords))
        /\ \A material \in MaterialsOf(SheetRecords) :
              LET records == OfMaterial(SheetRecords, material)
              IN  <<material,
                    SumOf([k \in 1..Len(records) |-> Kilograms(records[k])]),
                    SumOf([k \in 1..Len(records) |->
                             Div(records[k]["Flat Pattern Area"]
                                 * records[k]["Item Quantity"], 10000)])>>
                     \in Entries(summary.sheet.value)

\* the elements of a finite set of numbers, ascending
RECURSIVE SortedIndices(_)
SortedIndices(S) ==
    IF S = {} THEN <<>> ELSE <<Min(S)>> \o SortedIndices(S \ {Min(S)})

\* the answers the prompts accept, in the order typed: x, y or z in either case
Accepted(stdin) ==
    LET axes == [k \in 1..Len(stdin) |->
                    CASE stdin[k] \in {<<"x">>, <<"X">>} -> "X"
                      [] stdin[k] \in {<<"y">>, <<"Y">>} -> "Y"
                      [] stdin[k] \in {<<"z">>, <<"Z">>} -> "Z"
                      [] OTHER -> ""]
    IN  SelectSeq(axes, LAMBDA a : a # "")

\* a profile Record is asked about when str(Size Z) is one of the groups of
\* the pattern on its material
Asked(r) ==
    LET groups == ProfileSize(r["Material"])
    IN  \E k \in 1..Len(groups) : groups[k] = IntToStr(r["Size Z"])

\* the size used as the length of the k-th profile Record: that of the axis
\* answered, the n-th accepted answer for the n-th Record asked about, or Z
LengthSize(records, k, stdin) ==
    LET asked == Cardinality({j \in 1..k : Asked(records[j])})
        axis == IF Asked(records[k]) THEN Accepted(stdin)[asked] ELSE "Z"
    IN  CASE axis = "X" -> records[k]["Size X"]
          [] axis = "Y" -> records[k]["Size Y"]
          [] OTHER -> records[k]["Size Z"]

\* C5 for the profile summary (when every prompt was answered): one entry per
\* material, its mass the sum of Mass / 1000 x Item Quantity and its length
\* the sum of Size of the chosen axis / 1000 x Item Quantity.
C5_ProfileTotals ==
    (summary.profile.called /\ summary.profile.raised = "") =>
        /\ Len(summary.profile.value) = Cardinality(MaterialsOf(ProfileRecords))
        /\ \A material \in MaterialsOf(ProfileRecords) :
              LET of == {k \in 1..Len(ProfileRecords) :
                            ProfileRecords[k]["Material"] = material}
                  ks == SortedIndices(of)
              IN  <<material,
                    SumOf([n \in 1..Len(ks) |-> Kilograms(ProfileRecords[ks[n]])]),
                    SumOf([n \in 1..Len(ks) |->
                             Div(LengthSize(ProfileRecords, ks[n], call.stdin)
                                 * ProfileRecords[ks[n]]["Item Quantity"], 1000)])>>
                     \in Entries(summary.profile.value)

\* C5: the material totals of the sheet summary and of the profile summary.
C5_MaterialTotals == C5_SheetTotals /\ C5_ProfileTotals

\* a Record list in the order of a permutation of its indices
Permuted(records, order) == [k \in 1..Len(records) |-> records[order[k]]]

Orders(records) == Permutations(1..Len(records))

\* the merge keys of a summary with the totals returned for each
PurchasedTotals(list) == {<<entry[1], entry[4]>> : entry \in Entries(list)}

UnifiedTotals(list) == {<<entry[1], entry[3]>> : entry \in Entries(list)}

MaterialTotals(result) ==
    IF result.raised # "" THEN {<<result.raised>>}
    ELSE {<<entry[1], entry[2], entry[3]>> : entry \in Entries(result.value)}

\* the answers a deterministic resolver, an axis for each part number, gives
\* to the prompts of a Record list, in the order the list asks them
Answers(records, resolver) ==
    LET asked == SelectSeq(OfType(records, "profile material"), Asked)
    IN  [k \in 1..Len(asked) |-> <<resolver[asked[k]["Part Number"]]>>]

AskedParts == {data[k]["Part Number"] : k \in {j \in 1..Len(data) :
                  data[j]["Type"] = "profile material" /\ Asked(data[j])}}

C4_Purchased ==
    summary.purchased.called =>
        \A order \in Orders(data) :
            PurchasedTotals(_summarize_purchased(Permuted(data, order)))
                = PurchasedTotals(summary.purchased.value)

C4_Unified ==
    summary.unified.called =>
        \A order \in Orders(data) :
            UnifiedTotals(_summarize_unified(Permuted(data, order)))
                = UnifiedTotals(summary.unified.value)

C4_Sheet ==
    summary.sheet.called =>
        \A order \in Orders(data) :
            MaterialTotals(_summarize_sheet_material(Permuted(data, order)))
                = MaterialTotals(summary.sheet)

C4_Profile ==
    summary.profile.called =>
        \A order \in Orders(data), resolver \in [AskedParts -> {"x", "y", "z"}] :
            MaterialTotals(_summarize_profile_material(Permuted(data, order),
                               Answers(Permuted(data, order), resolver)))
                = MaterialTotals(_summarize_profile_material(data,
                                     Answers(data, resolver)))

\* C4: each of the four aggregators returns, for a Record list and for every
\* permutation of it, the same merge keys with the same totals.
C4_OrderIndependent == C4_Purchased /\ C4_Unified /\ C4_Sheet /\ C4_Profile

\* the merge key of a purchased Record
PurchasedKey(r) ==
    IF r["Project"] # <<>> \/ r["Vendor"] # <<>> THEN r["Description"]
    ELSE r["Part Number"]

\* a decimal number: digits with at most one point
NumberText(t) ==
    /\ \E k \in 1..Len(t) : t[k] \in {Digits[d] : d \in 1..10}
    /\ \A k \in 1..Len(t) : t[k] = "." \/ t[k] \in {Digits[d] : d \in 1..10}
    /\ Cardinality({k \in 1..Len(t) : t[k] = "."}) <= 1

\* where the number of a unit-quantity text ends: what follows it is the meter
\* suffix when the suffix is required, and else any run of spaces and meter
\* characters, the empty one too
NumberEnds(text, suffixRequired) ==
    {n \in 1..Len(text) :
        /\ NumberText(SubSeq(text, 1, n))
        /\ IF suffixRequired
           THEN SubSeq(text, n + 1, Len(text)) \in {<<"m">>, <<" ", "m">>}
           ELSE \A k \in (n + 1)..Len(text) : text[k] \in {" ", "m"}}

\* what a Record contributes, in ten-thousandths when its key has a measured
\* Record and in pieces when it has none
Contribution(r, suffixRequired, measuredKey) ==
    LET ends == NumberEnds(r["Unit Quantity"], suffixRequired)
    IN  IF ends # {}
        THEN FloatValue(SubSeq(r["Unit Quantity"], 1, Max(ends))) * r["Item Quantity"]
        ELSE IF measuredKey THEN 10000 * r["Item Quantity"] ELSE r["Item Quantity"]

\* text is a number of two decimals and the meter suffix, the nearest to total
IsMeters(text, total) ==
    LET n == Len(text)
    IN  /\ n >= 6
        /\ SubSeq(text, n - 1, n) = <<" ", "m">>
        /\ text[n - 4] = "."
        /\ \A k \in (1..(n - 5)) \cup {n - 3, n - 2} :
              text[k] \in {Digits[d] : d \in 1..10}
        /\ LET read == 10000 * DigitsValue(SubSeq(text, 1, n - 5))
                       + 100 * DigitsValue(SubSeq(text, n - 3, n - 2))
           IN  read - total \in -50..50

\* the purchased summary has one entry for each key, its quantity the total
\* of the Records of the key: a text of meters when one of them is measured,
\* and the integer sum of the item quantities when none is
PurchasedQuantities(suffixRequired) ==
    LET keys == {PurchasedKey(PurchasedRecords[k]) : k \in 1..Len(PurchasedRecords)}
    IN  /\ Len(summary.purchased.value) = Cardinality(keys)
        /\ \A key \in keys :
              LET records == SelectSeq(PurchasedRecords,
                                 LAMBDA r : PurchasedKey(r) = key)
                  measuredKey == \E k \in 1..Len(records) :
                      NumberEnds(records[k]["Unit Quantity"], suffixRequired) # {}
                  total == SumOf([k \in 1..Len(records) |->
                      Contribution(records[k], suffixRequired, measuredKey)])
              IN  \E entry \in Entries(summary.purchased.value) :
                      /\ entry[1] = key
                      /\ IF measuredKey
                         THEN /\ entry[4].type = "str"
                              /\ IsMeters(entry[4].value, total)
                         ELSE entry[4].type = "int" /\ entry[4].value = total

\* C6 as stated: a purchased Record is measured only if its unit quantity is
\* a number followed by the meter suffix, and contributes its integer item
\* quantity otherwise; a measured total is a text of two decimals and the
\* meter suffix, an unmeasured one the integer sum of the item quantities.
C6_MeasuredOnlyWithSuffix ==
    summary.purchased.called => PurchasedQuantities(TRUE)

\* C6: a purchased Record is measured exactly when its unit quantity, its
\* trailing spaces and meter characters removed, is a number, and contributes
\* that number times its item quantity; any other Record contributes its
\* integer item quantity. A total with a measured Record is a text of two
\* decimals and the meter suffix, a total of unmeasured Records the integer
\* sum of their item quantities.
C6_Measured ==
    summary.purchased.called => PurchasedQuantities(FALSE)

\* unit quantity "2.5 m" with item quantity 4 has given "10.00 m", and an
\* empty unit quantity with item quantity 4 the integer 4
C6_Witness ==
    /\ summary.purchased.called
    /\ Len(PurchasedRecords) = 2
    /\ \E k \in 1..2 :
          /\ PurchasedRecords[k]["Unit Quantity"] = <<"2", ".", "5", " ", "m">>
          /\ PurchasedRecords[k]["Item Quantity"] = 4
    /\ \E k \in 1..2 :
          /\ PurchasedRecords[k]["Unit Quantity"] = <<>>
          /\ PurchasedRecords[k]["Item Quantity"] = 4
    /\ \E entry \in Entries(summary.purchased.value) :
          /\ entry[4].type = "str"
          /\ entry[4].value = <<"1", "0", ".", "0", "0", " ", "m">>
    /\ \E entry \in Entries(summary.purchased.value) :
          entry[4].type = "int" /\ entry[4].value = 4

(***************************************************************************)
(* The Report Sink: claim C7.                                              *)
(***************************************************************************)
\* a row's key matches a material name: the key is a text, not empty, and the
\* name begins with it
KeyMatches(key, name) ==
    /\ key # NoneValue
    /\ key # <<>>
    /\ Len(key) <= Len(name)
    /\ \A k \in 1..Len(key) : key[k] = name[k]

\* how many times an entry is in a list
Count(list, entry) == Cardinality({k \in 1..Len(list) : list[k] = entry})

\* what a step leaves of the sheet given and of self._exceptions
Transferred(before, after, entries, old, new) ==
    /\ Len(after) = Len(before)
    /\ \A row \in 1..Len(before) :
          LET matching == {k \in 1..Len(entries) :
                              KeyMatches(before[row].J, entries[k][1])}
          IN  IF matching = {} THEN after[row] = before[row]
              ELSE /\ after[row].J = before[row].J
                   /\ after[row].D = entries[Max(matching)][2]
                   /\ after[row].G = entries[Max(matching)][3]
                   /\ after[row].font = highlight
    /\ Len(new) >= Len(old)
    /\ SubSeq(new, 1, Len(old)) = old
    /\ \A k \in 1..Len(entries) :
          Count(SubSeq(new, Len(old) + 1, Len(new)), entries[k])
             = IF \E row \in 1..Len(before) : KeyMatches(before[row].J, entries[k][1])
               THEN 0 ELSE 1
    /\ Len(new) - Len(old) <= Len(entries)

\* C7: a call of _transfer_material writes the two values of an entry to
\* every row whose column J is a non-empty text the entry's material name
\* starts with (the last such entry stays), leaves every other row as it was,
\* and appends to the exceptions each entry that matches no row once and no
\* entry that matches a row.
C7_Transfer ==
    [][call'.method = "_transfer_material" =>
          /\ Transferred(template[call'.sheet], template'[call'.sheet],
                         call'.data, exceptions, exceptions')
          /\ \A index \in (1..4) \ {call'.sheet} : template'[index] = template[index]]_vars

\* "Steel 10" has matched "Steel 10x20" and not "Steel 2x4": the row holds the
\* values of the one, and the other is an exception
C7_Witness ==
    /\ call.method = "_transfer_material"
    /\ \E j, k \in 1..Len(call.data) :
          /\ call.data[j][1] = <<"S", "t", "e", "e", "l", " ", "1", "0", "x", "2", "0">>
          /\ call.data[k][1] = <<"S", "t", "e", "e", "l", " ", "2", "x", "4">>
          /\ Count(exceptions, call.data[k]) = 1
          /\ Count(exceptions, call.data[j]) = 0
          /\ \E row \in 1..Len(template[call.sheet]) :
                /\ template[call.sheet][row].J = <<"S", "t", "e", "e", "l", " ", "1", "0">>
                /\ template[call.sheet][row].D = call.data[j][2]
                /\ template[call.sheet][row].G = call.data[j][3]
                /\ template[call.sheet][row].font = highlight
          /\ \A row \in 1..Len(template[call.sheet]) :
                template[call.sheet][row].J # <<"S", "t", "e", "e", "l">>

(***************************************************************************)
(* Document.get_properties: claim C9.                                      *)
(***************************************************************************)
\* no property set of the document holds the property
Missing(prop) ==
    \A k \in 1..Len(_PROPERTY_SETS) : prop \notin DOMAIN document.PropertySets[k]

\* C9: get_properties returns a value for every property requested, and for
\* a property that no property set holds the value is empty (None or ""),
\* whatever the other properties of the call are.
C9_MissingIsEmpty ==
    call.method = "get_properties" =>
        /\ DOMAIN call.value
              = {call.properties[k] : k \in 1..Len(call.properties)}
        /\ \A prop \in DOMAIN call.value :
              Missing(prop) => call.value[prop] \in {NoneValue, <<>>}

(***************************************************************************)
(* The axis of length of a profile: claim C11.                             *)
(***************************************************************************)
\* how many digits a text begins with
LeadingDigits(text) ==
    Max({n \in 0..Len(text) : \A k \in 1..n : text[k] \in {Digits[d] : d \in 1..10}})

\* a is a part of the text b
IsSubstring(a, b) ==
    \E k \in 0..(Len(b) - Len(a)) : SubSeq(b, k + 1, k + Len(a)) = a

\* the leading numeric token of a material name, digits[.digits]; <<>> when
\* the name begins with no digit
NumericToken(material) ==
    LET whole == LeadingDigits(material)
        after == SubSeq(material, whole + 2, Len(material))
    IN  IF whole > 0 /\ whole < Len(material) /\ material[whole + 1] = "."
           /\ LeadingDigits(after) > 0
        THEN SubSeq(material, 1, whole + 1 + LeadingDigits(after))
        ELSE SubSeq(material, 1, whole)

\* the numbers the pattern (\d+).(\d+)? finds at the head of a material name:
\* the digits it begins with, and the digits after the one character that
\* follows them; a name of digits only gives its digits but the last; a name
\* that begins with no digit, or is one digit, gives none
PatternNumbers(material) ==
    LET digits == LeadingDigits(material)
        first == IF digits < Len(material) THEN digits ELSE digits - 1
        after == SubSeq(material, first + 2, Len(material))
    IN  IF first < 1 THEN {}
        ELSE {SubSeq(material, 1, first)}
             \cup (IF LeadingDigits(after) = 0 THEN {}
                   ELSE {SubSeq(after, 1, LeadingDigits(after))})

\* is the axis of a profile Record asked for: as the claim is stated, when
\* str(Size Z) is a part of the numeric token; else when it is one of the
\* numbers of the pattern
Requested(r, asStated) ==
    IF asStated
    THEN /\ NumericToken(r["Material"]) # <<>>
         /\ IsSubstring(IntToStr(r["Size Z"]), NumericToken(r["Material"]))
    ELSE IntToStr(r["Size Z"]) \in PatternNumbers(r["Material"])

\* the size that is the length of the k-th profile Record: that of the axis
\* answered to its request, and of Z when there was no request
SizeOfAxis(records, k, asked, answers) ==
    LET axis == IF k \in asked
                THEN answers[Cardinality({j \in asked : j <= k})] ELSE "Z"
    IN  CASE axis = "X" -> records[k]["Size X"]
          [] axis = "Y" -> records[k]["Size Y"]
          [] OTHER -> records[k]["Size Z"]

\* A call of _summarize_profile_material that returns has read, for each
\* Record whose axis is asked for, the lines up to the first that names an
\* axis, and no line for any other Record; the length of each material is the
\* sum of the sizes of the axes so chosen.  A call that ends on the end of
\* the input had more requests to make than axes were typed.
AxisRequests(asStated) ==
    LET asked == {k \in 1..Len(ProfileRecords) :
                     Requested(ProfileRecords[k], asStated)}
        answers == Accepted(call.stdin)
    IN  IF summary.profile.raised = ""
        THEN /\ Len(answers) = Cardinality(asked)
             /\ call.stdin # <<>> =>
                   Upper(call.stdin[Len(call.stdin)]) \in Axes
             /\ \A material \in MaterialsOf(ProfileRecords) :
                   LET of == SortedIndices({k \in 1..Len(ProfileRecords) :
                                 ProfileRecords[k]["Material"] = material})
                   IN  \E entry \in Entries(summary.profile.value) :
                          /\ entry[1] = material
                          /\ entry[3] = SumOf([n \in 1..Len(of) |->
                                Div(SizeOfAxis(ProfileRecords, of[n], asked, answers)
                                    * ProfileRecords[of[n]]["Item Quantity"], 1000)])
        ELSE /\ summary.profile.raised = "EOFError"
             /\ Len(answers) < Cardinality(asked)

\* C11 as stated: the axis of a profile Record is Z, and is asked for if and
\* only if str(Size Z) is a substring of the leading numeric token,
\* digits[.digits], of the material name; the length is the size of the axis
\* chosen, one of X, Y, Z.
C11_AskedWhenInToken ==
    summary.profile.called => AxisRequests(TRUE)

\* C11: the axis of a profile Record is Z, and is asked for if and only if
\* str(Size Z) equals one of the two groups the pattern (\d+).(\d+)? matches
\* at the head of the material name; a name the pattern does not match asks
\* for nothing; the length is the size of the axis chosen, one of X, Y, Z.
C11_AskedWhenAGroup ==
    summary.profile.called => AxisRequests(FALSE)

\* "20x30" with Size Z 30 was asked about and, after a line that names no
\* axis, answered Y; "200x5" with Size Z 20 was not asked about
C11_Witness ==
    /\ summary.profile.called
    /\ summary.profile.raised = ""
    /\ call.stdin = <<<<"q">>, <<"Y">>>>
    /\ Len(ProfileRecords) = 2
    /\ ProfileRecords[1]["Material"] = <<"2", "0", "0", "x", "5">>
    /\ ProfileRecords[1]["Size Z"] = 20
    /\ ProfileRecords[2]["Material"] = <<"2", "0", "x", "3", "0">>
    /\ ProfileRecords[2]["Size Z"] = 30
    /\ summary.profile.value[1][3] = Div(ProfileRecords[1]["Size Z"] * 1, 1000)
    /\ summary.profile.value[2][3] = Div(ProfileRecords[2]["Size Y"] * 2, 1000)

(***************************************************************************)
(* issue_bom called again: claim C12.                                      *)
(***************************************************************************)
\* C12: a call of issue_bom that follows a call of issue_bom with the same
\* arguments, on the same ManagerBOM and an unchanged assembly, leaves the
\* same Record list, the same four summaries and the same exceptions list as
\* the call before it.
C12_Idempotent ==
    [][(call.method = "issue_bom" /\ call' = call) =>
          /\ data' = data
          /\ summary' = summary
          /\ exceptions' = exceptions]_vars

====
